---- MODULE Spec2Model ----
(***************************************************************************)
(* Model of src/src/lib.rs: Range, Sample and Monitor.                     *)
(*                                                                         *)
(* f64 values are modelled as extended rationals <<n, d>>:                 *)
(*   d > 0, gcd(|n|, d) = 1   a finite value n/d                           *)
(*   <<1, 0>>, <<-1, 0>>      +inf, -inf                                   *)
(*   <<0, 0>>                 NaN                                          *)
(* Arithmetic and comparison follow IEEE 754 on the non-finite values      *)
(* (x/0 = inf, 0/0 = NaN, 0*inf = NaN, inf-inf = NaN, every comparison     *)
(* with NaN is false).  Rounding of finite results and the sign of zero    *)
(* are not modelled.                                                       *)
(***************************************************************************)
EXTENDS Integers, Sequences, FiniteSets, TLC

\* largest integer used as a Range bound
MaxVal == 2
\* largest usize reading wrapped in a Sample
MaxSample == 1

VARIABLES domain, destination, nominal, built, monitor, call, probe

vars == <<domain, destination, nominal, built, monitor, call, probe>>

----------------------------------------------------------------------------
\* f64

NaN == <<0, 0>>
PosInf == <<1, 0>>
NegInf == <<-1, 0>>

Abs(i) == IF i < 0 THEN -i ELSE i

RECURSIVE Gcd(_, _)
Gcd(a, b) == IF b = 0 THEN a ELSE Gcd(b, a % b)

Norm(n, d) == LET g == Gcd(Abs(n), d) IN <<n \div g, d \div g>>

Fin(i) == <<i, 1>>

IsNaN(a) == a = NaN
IsInf(a) == a[2] = 0 /\ a[1] # 0
Sign(a) == IF a[1] < 0 THEN -1 ELSE IF a[1] > 0 THEN 1 ELSE 0

Neg(a) == <<-a[1], a[2]>>

Add(a, b) ==
    IF IsNaN(a) \/ IsNaN(b) THEN NaN
    ELSE IF IsInf(a) /\ IsInf(b) THEN (IF a = b THEN a ELSE NaN)
    ELSE IF IsInf(a) THEN a
    ELSE IF IsInf(b) THEN b
    ELSE Norm(a[1] * b[2] + b[1] * a[2], a[2] * b[2])

Sub(a, b) == Add(a, Neg(b))

Mul(a, b) ==
    IF IsNaN(a) \/ IsNaN(b) THEN NaN
    ELSE IF IsInf(a) \/ IsInf(b)
         THEN (IF Sign(a) = 0 \/ Sign(b) = 0 THEN NaN ELSE <<Sign(a) * Sign(b), 0>>)
    ELSE Norm(a[1] * b[1], a[2] * b[2])

Div(a, b) ==
    IF IsNaN(a) \/ IsNaN(b) THEN NaN
    ELSE IF IsInf(a) THEN (IF IsInf(b) THEN NaN
                           ELSE <<Sign(a) * (IF Sign(b) < 0 THEN -1 ELSE 1), 0>>)
    ELSE IF IsInf(b) THEN Fin(0)
    ELSE IF Sign(b) = 0 THEN (IF Sign(a) = 0 THEN NaN ELSE <<Sign(a), 0>>)
    ELSE Norm(Sign(b) * a[1] * b[2], a[2] * Abs(b[1]))

Lt(a, b) ==
    /\ ~IsNaN(a)
    /\ ~IsNaN(b)
    /\ IF a[2] = 0 \/ b[2] = 0
       THEN (IF a[2] = 0 THEN a[1] ELSE 0) < (IF b[2] = 0 THEN b[1] ELSE 0)
       ELSE a[1] * b[2] < b[1] * a[2]

Le(a, b) == ~IsNaN(a) /\ ~IsNaN(b) /\ (a = b \/ Lt(a, b))

Gt(a, b) == Lt(b, a)

\* `{}` of an f64: the text is fixed by the value
Display(a) ==
    IF IsNaN(a) THEN [text |-> "NaN", num |-> NaN]
    ELSE IF a = PosInf THEN [text |-> "inf", num |-> a]
    ELSE IF a = NegInf THEN [text |-> "-inf", num |-> a]
    ELSE [text |-> "digits", num |-> a]

----------------------------------------------------------------------------
\* Option, Result

None == [tag |-> "None"]
Some(v) == [tag |-> "Some", val |-> v]
Ok(v) == [tag |-> "Ok", val |-> v]
Err(m) == [tag |-> "Err", msg |-> m]

\* enum Deviation, enum State
Low(m) == [tag |-> "Low", mag |-> m]
High(m) == [tag |-> "High", mag |-> m]
Nominal(v) == [tag |-> "Nominal", value |-> v]
Alert(v, d) == [tag |-> "Alert", value |-> v, dev |-> d]
Error(v, d) == [tag |-> "Error", value |-> v, dev |-> d]

----------------------------------------------------------------------------
\* struct Range

Range(min, max) == [min |-> min, max |-> max]

\* variant: equal bounds rejected
Range_new_strict(min, max) ==
    IF Lt(min, max)
    THEN Ok(Range(min, max))
    ELSE Err(<<"invalid range: min:=", Display(min), ", max:=", Display(max),
               ", min <= max is false!">>)

Range_new(min, max) ==
    IF Le(min, max)
    THEN Ok(Range(min, max))
    ELSE Err(<<"invalid range: min:=", Display(min), ", max:=", Display(max),
               ", min <= max is false!">>)

\* variant: the upper bound is not compared
contains_min_only(self, range) == Le(self.min, range.min)

contains(self, range) == Le(self.min, range.min) /\ Le(range.max, self.max)

\* variant: the lower bound itself counts as below
deviation_inclusive(self, x) ==
    IF Le(x, self.min) THEN Some(Sub(x, self.min))
    ELSE IF Gt(x, self.max) THEN Some(Sub(x, self.max))
    ELSE None

deviation(self, x) ==
    IF Lt(x, self.min) THEN Some(Sub(x, self.min))
    ELSE IF Gt(x, self.max) THEN Some(Sub(x, self.max))
    ELSE None

size(self) == Sub(self.max, self.min)

\* `{:?}` of a Range
DebugRange(r) == <<"Range { min: ", Display(r.min), ", max: ", Display(r.max), " }">>

----------------------------------------------------------------------------
\* struct Sample; the capture instant is written once and never read

Sample_new(x) == [value |-> Fin(x)]

----------------------------------------------------------------------------
\* struct Monitor

Monitor(dom, dst, nom) == [domain |-> dom, destination |-> dst, nominal |-> nom]

Monitor_new(dom, dst, nom) ==
    IF ~contains(dst, nom)
    THEN Err(<<"values nominal:=", DebugRange(nom),
               " is not contained in values:=", DebugRange(dst)>>)
    ELSE Ok(Monitor(dom, dst, nom))

f(self, x) ==
    Add(self.destination.min,
        Mul(x, Div(size(self.destination), size(self.domain))))

\* variant: the previous sample's value is returned
validate_previous(self, current, previous) ==
    LET current_value == f(self, current.value)
        previous_value == f(self, previous.value)
    IN <<Nominal(previous_value), self>>

\* variant: the call writes through &mut self
validate_stateful(self, current, previous) ==
    LET current_value == f(self, current.value)
        previous_value == f(self, previous.value)
    IN <<Nominal(current_value),
         [self EXCEPT !.destination = Range(self.destination.min, current_value)]>>

\* validate(&mut self, ..): the pair <<returned State, self afterwards>>
validate(self, current, previous) ==
    LET current_value == f(self, current.value)
        previous_value == f(self, previous.value)
    IN <<Nominal(current_value), self>>

----------------------------------------------------------------------------
\* Inputs

\* arguments of Range::new
BoundArgs == {Fin(i) : i \in 0..MaxVal} \cup {NaN}
\* arguments of Range::deviation
Points == {Fin(i) : i \in -1..(MaxVal + 1)} \cup {NaN, PosInf, NegInf}
\* arguments of Monitor::f
MapArgs == {Fin(i) : i \in 0..MaxVal} \cup {NaN}
\* usize readings
Readings == 0..MaxSample

----------------------------------------------------------------------------
\* The caller: builds Ranges, moves them into one Monitor, then feeds it.

Init ==
    /\ domain = None
    /\ destination = None
    /\ nominal = None
    /\ built = None
    /\ monitor = None
    /\ call = [op |-> "none"]
    /\ probe = None

\* Range::new(min, max), the Ok value bound as the next of the three
\* arguments of Monitor::new, which are built in the order domain,
\* destination, nominal
RangeNew(min, max) ==
    /\ built = None
    /\ nominal = None
    /\ LET res == Range_new(min, max)
           ok == res.tag = "Ok"
       IN /\ call' = [op |-> "Range::new", min |-> min, max |-> max, res |-> res]
          /\ domain' = IF ok /\ domain = None THEN Some(res.val) ELSE domain
          /\ destination' = IF ok /\ domain # None /\ destination = None
                            THEN Some(res.val) ELSE destination
          /\ nominal' = IF ok /\ destination # None THEN Some(res.val) ELSE nominal
    /\ UNCHANGED <<built, monitor, probe>>

\* nominal.deviation(x)
RangeDeviation(x) ==
    /\ built = None
    /\ nominal # None
    /\ call' = [op |-> "deviation", r |-> nominal.val, x |-> x,
                res |-> deviation(nominal.val, x)]
    /\ UNCHANGED <<domain, destination, nominal, built, monitor, probe>>

\* Monitor::new(domain, destination, nominal): the three Ranges are moved
MonitorNew ==
    /\ built = None
    /\ domain # None /\ destination # None /\ nominal # None
    /\ LET res == Monitor_new(domain.val, destination.val, nominal.val)
       IN /\ built' = Some([domain |-> domain.val, destination |-> destination.val,
                            nominal |-> nominal.val, res |-> res])
          /\ monitor' = IF res.tag = "Ok" THEN Some(res.val) ELSE None
          /\ call' = [op |-> "Monitor::new", res |-> res]
    /\ domain' = None
    /\ destination' = None
    /\ nominal' = None
    /\ UNCHANGED probe

\* monitor.f(x)
MonitorF(x) ==
    /\ monitor # None
    /\ call' = [op |-> "f", x |-> x, res |-> f(monitor.val, x)]
    /\ UNCHANGED <<domain, destination, nominal, built, monitor, probe>>

\* monitor.validate(Sample::new(c), Sample::new(p)); probe remembers one
\* earlier call and whether other calls were made since
MonitorValidate(c, p) ==
    /\ monitor # None
    /\ LET out == validate(monitor.val, Sample_new(c), Sample_new(p))
           rec == [current |-> c, previous |-> p, res |-> out[1]]
       IN /\ monitor' = Some(out[2])
          /\ call' = [op |-> "validate", current |-> c, previous |-> p, res |-> out[1]]
          /\ \/ probe' = Some([rec |-> rec, others |-> FALSE])
             \/ /\ probe # None
                /\ probe' = Some([probe.val EXCEPT
                                   !.others = @ \/ <<c, p>> # <<probe.val.rec.current,
                                                                probe.val.rec.previous>>])
    /\ UNCHANGED <<domain, destination, nominal, built>>

Next ==
    \/ \E min \in BoundArgs, max \in BoundArgs : RangeNew(min, max)
    \/ \E x \in Points : RangeDeviation(x)
    \/ MonitorNew
    \/ \E x \in MapArgs : MonitorF(x)
    \/ \E c \in Readings, p \in Readings : MonitorValidate(c, p)

Spec == Init /\ [][Next]_vars

----------------------------------------------------------------------------
\* Vocabulary of the properties

\* the constructed Monitor, and a sample value mapped by Monitor::f
Mon == monitor.val
Mapped(v) == f(Mon, Sample_new(v).value)

Inside(v) == Le(Mon.nominal.min, v) /\ Le(v, Mon.nominal.max)
Below(v) == Lt(v, Mon.nominal.min)
Above(v) == Gt(v, Mon.nominal.max)

\* the Deviation tag chosen by the sign of the magnitude
Tagged(dev) == IF Lt(dev, Fin(0)) THEN Low(dev) ELSE High(dev)

Validated == call.op = "validate"
Cur == Mapped(call.current)
Prev == Mapped(call.previous)

ValidRange(r) == Le(r.min, r.max)

\* the typed failure of the mapping operation: no f64 pair <<n, d>>
DegenerateDomain == <<"DegenerateDomain">>

----------------------------------------------------------------------------
\* C1: when the mapped current value is outside nominal and the mapped
\* previous value is inside it, validate returns Alert(mapped current, d),
\* d being Low(dev) for a negative and High(dev) for a positive
\* dev = nominal.deviation(mapped current).
C1_NewExcursionIsAlert ==
    (Validated /\ (Below(Cur) \/ Above(Cur)) /\ Inside(Prev))
        => /\ call.res.tag = "Alert"
           /\ call.res.value = Cur
           /\ call.res.dev = Tagged(deviation(Mon.nominal, Cur).val)

\* C2: when two consecutive samples both map outside nominal on the same
\* side, the call for the second returns Error(mapped current, d) with d
\* tagged by that side.
C2_SustainedExcursionIsError ==
    (Validated /\ ((Below(Cur) /\ Below(Prev)) \/ (Above(Cur) /\ Above(Prev))))
        => /\ call.res.tag = "Error"
           /\ call.res.value = Cur
           /\ call.res.dev = Tagged(deviation(Mon.nominal, Cur).val)

\* C3: when the mapped previous value is outside nominal on one side and the
\* mapped current value outside on the other, validate returns Alert carrying
\* the current deviation, never Error.
C3_SideFlipIsAlert ==
    (Validated /\ ((Below(Cur) /\ Above(Prev)) \/ (Above(Cur) /\ Below(Prev))))
        => /\ call.res.tag = "Alert"
           /\ call.res.dev = Tagged(deviation(Mon.nominal, Cur).val)

\* C4: whatever the previous sample, when the mapped current value lies
\* within nominal (bounds inclusive) validate returns Nominal(mapped current).
C4_InsideIsNominal ==
    (Validated /\ Inside(Cur)) => call.res = Nominal(Cur)

C4_Witness ==
    /\ Validated
    /\ Inside(Cur)
    /\ Above(Prev)
    /\ call.res.tag = "Nominal"

\* C5: with a domain of non-zero size, f(x) is
\* destination.min + (x - domain.min) * (destination.size() / domain.size()).
C5_LinearRescale ==
    (call.op = "f" /\ size(Mon.domain) # Fin(0))
        => call.res = Add(Mon.destination.min,
                          Mul(Sub(call.x, Mon.domain.min),
                              Div(size(Mon.destination), size(Mon.domain))))

\* C6: with a domain of size 0 the mapping fails with DegenerateDomain for
\* every x, and validate returns no State built from the quotient.
C6_DegenerateDomainFails ==
    /\ (call.op = "f" /\ size(Mon.domain) = Fin(0)) => call.res = DegenerateDomain
    /\ (Validated /\ size(Mon.domain) = Fin(0))
           => call.res.tag \notin {"Nominal", "Alert", "Error"}

\* C7: Monitor::new returns an error naming the bounds of nominal and
\* destination exactly when nominal.min < destination.min or
\* nominal.max > destination.max, and otherwise a Monitor holding the three
\* Ranges unchanged; every constructed Monitor has nominal within destination.
C7_MonitorNew ==
    /\ built # None =>
          LET b == built.val
              out == Lt(b.nominal.min, b.destination.min)
                         \/ Gt(b.nominal.max, b.destination.max)
          IN /\ b.res.tag = "Err" <=> out
             /\ b.res.tag = "Err" =>
                   /\ b.res.msg[2][2] = Display(b.nominal.min)
                   /\ b.res.msg[2][4] = Display(b.nominal.max)
                   /\ b.res.msg[4][2] = Display(b.destination.min)
                   /\ b.res.msg[4][4] = Display(b.destination.max)
                   /\ monitor = None
             /\ b.res.tag = "Ok" =>
                   /\ b.res.val.domain = b.domain
                   /\ b.res.val.destination = b.destination
                   /\ b.res.val.nominal = b.nominal
    /\ monitor # None =>
          /\ Le(Mon.destination.min, Mon.nominal.min)
          /\ Le(Mon.nominal.max, Mon.destination.max)

C7_Witness ==
    /\ call.op = "Monitor::new"
    /\ call.res.tag = "Err"
    /\ built.val.nominal.min = built.val.destination.min
    /\ Gt(built.val.nominal.max, built.val.destination.max)

\* C8: Range::new(min, max) is Ok exactly when min <= max, storing both
\* arguments unchanged, and otherwise the error whose message carries min,
\* max and the violated predicate; every Range that exists has min <= max.
C8_RangeNew ==
    /\ call.op = "Range::new" =>
          /\ call.res.tag = "Ok" <=> Le(call.min, call.max)
          /\ call.res.tag = "Ok" =>
                call.res.val.min = call.min /\ call.res.val.max = call.max
          /\ call.res.tag = "Err" =>
                /\ call.res.msg[2] = Display(call.min)
                /\ call.res.msg[4] = Display(call.max)
                /\ call.res.msg[5] = ", min <= max is false!"
    /\ \A s \in {domain, destination, nominal} : s # None => ValidRange(s.val)
    /\ monitor # None =>
          /\ ValidRange(Mon.domain)
          /\ ValidRange(Mon.destination)
          /\ ValidRange(Mon.nominal)

C8_Witness ==
    /\ call.op = "Range::new"
    /\ call.min = call.max
    /\ call.res.tag = "Ok"
    /\ \E s \in {domain, destination, nominal} : s = Some(Range(call.min, call.max))

\* the three cases of deviation for one call
DeviationCases(r, x, res) ==
    /\ res = None <=> (Le(r.min, x) /\ Le(x, r.max))
    /\ Lt(x, r.min) => res = Some(Sub(x, r.min)) /\ Lt(res.val, Fin(0))
    /\ Gt(x, r.max) => res = Some(Sub(x, r.max)) /\ Gt(res.val, Fin(0))
    /\ res # None => res.val # Fin(0)
    /\ ~(Lt(x, r.min) /\ Gt(x, r.max))

\* C9 as stated: for every valid Range r and every x, r.deviation(x) is None
\* iff r.min <= x <= r.max, Some(x - r.min) < 0 when x < r.min and
\* Some(x - r.max) > 0 when x > r.max, never a zero magnitude.
C9_DeviationEveryX ==
    call.op = "deviation" => DeviationCases(call.r, call.x, call.res)

\* C9 amended: the same for every x that is not NaN; r.deviation(NaN) is None.
C9_DeviationOrderedX ==
    call.op = "deviation" =>
        IF IsNaN(call.x)
        THEN call.res = None
        ELSE DeviationCases(call.r, call.x, call.res)

C9_Witness ==
    /\ call.op = "deviation"
    /\ Lt(call.x, call.r.min)
    /\ call.res.tag = "Some"
    /\ Lt(call.res.val, Fin(0))

\* C10: validate leaves the Monitor's three Ranges as constructed, and a call
\* with the same (current.value, previous.value) as an earlier call returns
\* the same State whatever calls were made in between.
C10_ValidatePure ==
    /\ monitor # None => Mon = built.val.res.val
    /\ (Validated /\ probe # None
          /\ call.current = probe.val.rec.current
          /\ call.previous = probe.val.rec.previous)
           => call.res = probe.val.rec.res

C10_Witness ==
    /\ Validated
    /\ probe # None
    /\ probe.val.others
    /\ call.current = probe.val.rec.current
    /\ call.previous = probe.val.rec.previous
    /\ call.res = probe.val.rec.res
    /\ Mon = built.val.res.val

====
